---- MODULE Spec2Model ----
(***************************************************************************)
(* Model of src/actions/bookings.js: the createBooking server action and   *)
(* its two helpers, getGoogleOAuthToken and createGoogleCalendarEvent.     *)
(*                                                                         *)
(* createBooking is an async function: it runs to its next await, is       *)
(* suspended while the collaborator call is in flight, and resumes with    *)
(* the settled promise.  Each action below is one such run-to-await        *)
(* segment, so several invocations interleave exactly at the awaits.       *)
(* Collaborators (Prisma, Clerk, Google Calendar) are the environment:     *)
(* the way each of their promises settles is drawn with \E.  A rejected    *)
(* promise carries an Error object (name, code, message).                  *)
(***************************************************************************)
EXTENDS Integers, Sequences, FiniteSets, TLC

\* ---------------------------------------------------------------- bounds
NumInvocations == 2
MaxClock == 1

Invocations == 1..NumInvocations

\* ------------------------------------------------------- JavaScript values
\* Values whose JavaScript type matters for === and for truthiness carry
\* their type.
Str(s) == [t |-> "string", v |-> s]
Num(n) == [t |-> "number", v |-> n]
Undefined == [t |-> "undefined", v |-> 0]
Null == [t |-> "null", v |-> 0]

\* a === b
StrictEquals(a, b) == a.t = b.t /\ a.v = b.v

\* !!v
Truthy(v) ==
  CASE v.t = "string" -> v.v # ""
    [] v.t = "number" -> v.v # 0
    [] OTHER -> FALSE

\* A settled promise of a collaborator call.
Fulfilled(v) == [settled |-> "fulfilled", value |-> v]
Rejected(e) == [settled |-> "rejected", reason |-> e]

\* The completion of a function body: a returned value or a thrown error.
Return(v) == [kind |-> "return", value |-> v]
Throw(e) == [kind |-> "throw", error |-> e]
Pending == [kind |-> "pending"]

\* new Error(message): no own code property.
Error(message) ==
  [name |-> "Error", code |-> Undefined, message |-> message, clerkError |-> Null]

\* class OAuthError extends Error
OAuthError(message, code, clerkError) ==
  [name |-> "OAuthError", code |-> Str(code), message |-> message,
   clerkError |-> clerkError]

\* An error object raised by a collaborator library.
LibError(name, code, message) ==
  [name |-> name, code |-> code, message |-> message, clerkError |-> Null]

\* --------------------------------------------------------------- the data
\* Rows of the Event table, joined with their owner (include: { user: true }).
EventRows ==
  { [id |-> "E1", title |-> "Intro", userId |-> "U1",
     user |-> [clerkUserId |-> "clerk_1", email |-> "owner@x.io"]] }

\* bookingData as the caller builds it.  "E9" is the id of no event.
BookingDatas ==
  { [eventId |-> "E1", name |-> "Ann", email |-> "ann@x.io",
     startTime |-> "T10", endTime |-> "T11", additionalInfo |-> "hi"],
    [eventId |-> "E9", name |-> "Bob", email |-> "bob@x.io",
     startTime |-> "T14", endTime |-> "T15", additionalInfo |-> ""] }

NoBookingData ==
  [eventId |-> "", name |-> "", email |-> "", startTime |-> "",
   endTime |-> "", additionalInfo |-> ""]

NoEvent ==
  [id |-> "", title |-> "", userId |-> "",
   user |-> [clerkUserId |-> "", email |-> ""]]

NoGoogleEvent == [meetLink |-> Undefined, googleEventId |-> Undefined]

\* How db.event.findUnique can fail.
FindUniqueErrors ==
  { LibError("PrismaClientKnownRequestError", Str("P1001"), "db unreachable") }

\* What clerk.users.getUserOauthAccessToken can answer: a page of linked
\* accounts (none, one with a token, one with an empty token) ...
TokenResponses ==
  { [data |-> << >>],
    [data |-> << [token |-> Str("")] >>],
    [data |-> << [token |-> Str("tokA")] >>],
    [data |-> << [token |-> Str("tokB")] >> ] }

\* ... or an error: the token-retrieval error, or any other.
TokenErrors ==
  { LibError("ClerkAPIResponseError", Str("oauth_token_retrieval_error"),
             "token retrieval failed"),
    LibError("ClerkAPIResponseError", Str("resource_not_found"), "no such user"),
    LibError("TypeError", Undefined, "fetch failed") }

\* How calendar.events.insert can fail.
CalendarErrors ==
  { LibError("GaxiosError", Num(401), "Invalid Credentials"),
    LibError("GaxiosError", Num(403), "Rate Limit Exceeded"),
    LibError("GaxiosError", Str("ECONNRESET"), "socket hang up") }

\* How db.booking.create can fail.
BookingCreateErrors ==
  { LibError("PrismaClientKnownRequestError", Str("P2002"), "constraint failed") }

\* ------------------------------------------------------------------ state
VARIABLES
  dbEvents,      \* the Event table (with owners)
  dbBookings,    \* the Booking table, in insertion order
  remoteEvents,  \* events on the owner's Google calendar, in creation order
  clock,         \* the latest value Date.now() has returned
  pc,            \* per invocation: where createBooking is suspended
  bookingData,   \* per invocation: the argument of createBooking
  event,         \* per invocation: const event
  token,         \* per invocation: let token
  googleEvent,   \* per invocation: let googleEvent
  inFlight,      \* per invocation: the arguments of the call being awaited
  outcome,       \* per invocation: how createBooking completed
  hist           \* per invocation: collaborator calls made and settled so far

vars == << dbEvents, dbBookings, remoteEvents, clock, pc, bookingData, event,
           token, googleEvent, inFlight, outcome, hist >>

NoCall == [op |-> "none"]

Init ==
  /\ dbEvents = EventRows
  /\ dbBookings = << >>
  /\ remoteEvents = << >>
  /\ clock = 0
  /\ pc = [i \in Invocations |-> "idle"]
  /\ bookingData = [i \in Invocations |-> NoBookingData]
  /\ event = [i \in Invocations |-> NoEvent]
  /\ token = [i \in Invocations |-> Undefined]
  /\ googleEvent = [i \in Invocations |-> NoGoogleEvent]
  /\ inFlight = [i \in Invocations |-> NoCall]
  /\ outcome = [i \in Invocations |-> Pending]
  /\ hist = [i \in Invocations |-> << >>]

\* getGoogleOAuthToken without the check of the token.
getGoogleOAuthToken_lenient(settled) ==
  IF settled.settled = "rejected"
  THEN Throw(OAuthError("Failed to access Google Calendar", "GOOGLE_AUTH_ERROR",
                        settled.reason))
  ELSE LET data == settled.value.data
       IN Return(IF Len(data) > 0 THEN data[1].token ELSE Undefined)

\* getGoogleOAuthToken with a catch that does not tell the token-retrieval
\* error from the others.
getGoogleOAuthToken_unclassified(settled) ==
  IF settled.settled = "fulfilled" /\ Len(settled.value.data) > 0
     /\ Truthy(settled.value.data[1].token)
  THEN Return(settled.value.data[1].token)
  ELSE Throw(OAuthError("Failed to access Google Calendar", "GOOGLE_AUTH_ERROR",
                        Null))

\* ---------------------------------------------------- getGoogleOAuthToken
\* The body of getGoogleOAuthToken once the Clerk call has settled.  The
\* throw of line 34 is inside the try block, so the catch of line 41
\* receives it like any error of the Clerk call.
getGoogleOAuthToken(settled) ==
  LET tryBlock ==
        IF settled.settled = "rejected"
        THEN Throw(settled.reason)
        ELSE LET data == settled.value.data
                 tok == IF Len(data) > 0 THEN data[1].token ELSE Undefined
             IN IF ~Truthy(tok)
                THEN Throw(OAuthError("Google Calendar not connected",
                                      "NO_GOOGLE_CONNECTION", Null))
                ELSE Return(tok)
  IN IF tryBlock.kind = "throw"
     THEN LET error == tryBlock.error
          IN IF StrictEquals(error.code, Str("oauth_token_retrieval_error"))
             THEN Throw(OAuthError("Please reconnect your Google Calendar",
                                   "GOOGLE_AUTH_REQUIRED", error))
             ELSE Throw(OAuthError("Failed to access Google Calendar",
                                   "GOOGLE_AUTH_ERROR", error))
     ELSE tryBlock

\* ---------------------------------------------- createGoogleCalendarEvent
\* The argument of calendar.events.insert; now is the value of Date.now().
CalendarInsertRequest(params, now) ==
  [access_token |-> params.token,
   calendarId |-> "primary",
   conferenceDataVersion |-> 1,
   summary |-> params.summary,
   description |-> params.description,
   start |-> params.startTime,
   end |-> params.endTime,
   attendees |-> params.attendees,
   requestId |-> params.eventId \o "-" \o ToString(now)]

\* createGoogleCalendarEvent with a catch that takes every failure for an
\* expired token.
createGoogleCalendarEvent_allOAuth(settled) ==
  IF settled.settled = "fulfilled"
  THEN Return([meetLink |-> settled.value.data.hangoutLink,
               googleEventId |-> settled.value.data.id])
  ELSE Throw(OAuthError("Google Calendar access expired",
                        "GOOGLE_TOKEN_EXPIRED", Null))

\* createGoogleCalendarEvent with a catch that swallows the error.
createGoogleCalendarEvent_swallows(settled) ==
  IF settled.settled = "fulfilled"
  THEN Return([meetLink |-> settled.value.data.hangoutLink,
               googleEventId |-> settled.value.data.id])
  ELSE Return(NoGoogleEvent)

\* The body of createGoogleCalendarEvent once the insert has settled.
createGoogleCalendarEvent(settled) ==
  IF settled.settled = "fulfilled"
  THEN Return([meetLink |-> settled.value.data.hangoutLink,
               googleEventId |-> settled.value.data.id])
  ELSE IF StrictEquals(settled.reason.code, Num(401))
       THEN Throw(OAuthError("Google Calendar access expired",
                             "GOOGLE_TOKEN_EXPIRED", Null))
       ELSE Throw(Error("Failed to create Google Calendar event"))

\* ----------------------------------------------------------- createBooking
\* A createBooking that looks for a Booking already made and answers with it.
EventNotFound_dedup(found) ==
  IF ~found
  THEN Return([success |-> FALSE, error |-> "Event not found"])
  ELSE IF dbBookings # << >>
       THEN Return([success |-> TRUE, booking |-> dbBookings[1],
                    meetLink |-> dbBookings[1].meetLink])
       ELSE Pending

\* A createBooking without the check of the event.
EventNotFound_unchecked(found) == Pending

\* if (!event) return ...
EventNotFound(found) ==
  IF ~found
  THEN Return([success |-> FALSE, error |-> "Event not found"])
  ELSE Pending

\* A token-stage catch that asks for reauthorization whatever the code.
TokenFailure_alwaysReauth(oauthError) ==
  Return([success |-> FALSE,
          error |-> oauthError.message,
          code |-> oauthError.code,
          requiresReauth |-> TRUE])

\* catch (oauthError) of the token stage.
TokenFailure(oauthError) ==
  Return([success |-> FALSE,
          error |-> oauthError.message,
          code |-> oauthError.code,
          requiresReauth |->
            StrictEquals(oauthError.code, Str("GOOGLE_AUTH_REQUIRED"))])

\* A createBooking that keeps the token in a variable of the module, where
\* the first invocation's token stays.
CalendarParams_sharedToken(tok, bd, ev) ==
  [token |-> IF Truthy(token[1]) THEN token[1] ELSE tok,
   summary |-> bd.name \o " - " \o ev.title,
   description |-> bd.additionalInfo,
   startTime |-> bd.startTime,
   endTime |-> bd.endTime,
   attendees |-> << [email |-> bd.email], [email |-> ev.user.email] >>,
   eventId |-> ev.id]

\* The parameters createBooking passes to createGoogleCalendarEvent.
CalendarParams(tok, bd, ev) ==
  [token |-> tok,
   summary |-> bd.name \o " - " \o ev.title,
   description |-> bd.additionalInfo,
   startTime |-> bd.startTime,
   endTime |-> bd.endTime,
   attendees |-> << [email |-> bd.email], [email |-> ev.user.email] >>,
   eventId |-> ev.id]

\* A calendar-stage catch that does not ask for reauthorization.
CalendarFailure_noReauth(calendarError) ==
  IF calendarError.name = "OAuthError"
  THEN Return([success |-> FALSE,
               error |-> "Failed to create calendar event. Please reconnect Google Calendar.",
               code |-> calendarError.code,
               requiresReauth |-> FALSE])
  ELSE Throw(calendarError)

\* A calendar-stage catch that throws every error on.
CalendarFailure_rethrows(calendarError) == Throw(calendarError)

\* A calendar-stage catch that answers with the message of the error.
CalendarFailure_innerMessage(calendarError) ==
  IF calendarError.name = "OAuthError"
  THEN Return([success |-> FALSE,
               error |-> calendarError.message,
               code |-> calendarError.code,
               requiresReauth |-> TRUE])
  ELSE Throw(calendarError)

\* catch (calendarError) of the calendar stage: a result for an OAuthError,
\* anything else is thrown on.
CalendarFailure(calendarError) ==
  IF calendarError.name = "OAuthError"
  THEN Return([success |-> FALSE,
               error |-> "Failed to create calendar event. Please reconnect Google Calendar.",
               code |-> calendarError.code,
               requiresReauth |-> TRUE])
  ELSE Throw(calendarError)

\* A db.booking.create data with the two values of the calendar swapped.
BookingCreateData_swapped(ev, bd, gev) ==
  [eventId |-> ev.id,
   userId |-> ev.userId,
   name |-> bd.name,
   email |-> bd.email,
   startTime |-> bd.startTime,
   endTime |-> bd.endTime,
   additionalInfo |-> bd.additionalInfo,
   meetLink |-> gev.googleEventId,
   googleEventId |-> gev.meetLink]

\* The data of db.booking.create.
BookingCreateData(ev, bd, gev) ==
  [eventId |-> ev.id,
   userId |-> ev.userId,
   name |-> bd.name,
   email |-> bd.email,
   startTime |-> bd.startTime,
   endTime |-> bd.endTime,
   additionalInfo |-> bd.additionalInfo,
   meetLink |-> gev.meetLink,
   googleEventId |-> gev.googleEventId]

\* The return of the success path.
SuccessResult(booking, gev) ==
  Return([success |-> TRUE, booking |-> booking, meetLink |-> gev.meetLink])

\* An outermost catch that answers without the message of the error.
OuterCatch_noDetails(error) ==
  Return([success |-> FALSE, error |-> "Failed to create booking"])

\* An outermost catch that swallows the error and reports success.
OuterCatch_succeeds(error) ==
  Return([success |-> TRUE, error |-> "Failed to create booking",
          details |-> error.message])

\* An outermost catch that logs the error and throws it on.
OuterCatch_rethrows(error) == Throw(error)

\* The outermost catch (error).
OuterCatch(error) ==
  Return([success |-> FALSE,
          error |-> "Failed to create booking",
          details |-> error.message])

\* A completion that left a try block of createBooking by a throw goes
\* through the outermost catch.
ThroughOuterCatch(completion) ==
  IF completion.kind = "throw" THEN OuterCatch(completion.error) ELSE completion

\* createBooking completes for invocation i.
Finish(i, completion) ==
  /\ pc' = [pc EXCEPT ![i] = "done"]
  /\ outcome' = [outcome EXCEPT ![i] = completion]
  /\ inFlight' = [inFlight EXCEPT ![i] = NoCall]

\* Entries of hist: a call made with its arguments, or a call settled with
\* its promise.
Called(call) == [ev |-> "call", op |-> call.op, val |-> call.args]
Settled(op, settled) == [ev |-> settled.settled, op |-> op, val |-> settled]

Record(i, entries) == hist' = [hist EXCEPT ![i] = @ \o entries]

\* createBooking(bd) is invoked and runs to await db.event.findUnique.
\* Invocation i is the i-th call of createBooking.
Invoke(i, bd) ==
  /\ pc[i] = "idle"
  /\ \A j \in Invocations : j < i => pc[j] # "idle"
  /\ bookingData' = [bookingData EXCEPT ![i] = bd]
  /\ LET query == [op |-> "findUnique",
                   args |-> [id |-> bd.eventId, include |-> "user"]]
     IN /\ inFlight' = [inFlight EXCEPT ![i] = query]
        /\ Record(i, << Called(query) >>)
  /\ pc' = [pc EXCEPT ![i] = "findUnique"]
  /\ UNCHANGED << dbEvents, dbBookings, remoteEvents, clock, event, token,
                  googleEvent, outcome >>

\* What db.event.findUnique answers for a query: the row, or null.
FindUnique(query) ==
  LET rows == { r \in dbEvents : r.id = query.id }
  IN IF rows = {}
     THEN [found |-> FALSE, row |-> NoEvent]
     ELSE [found |-> TRUE, row |-> CHOOSE r \in rows : TRUE]

\* The event lookup failed: the outermost catch answers.
FindUniqueRejects(i) ==
  /\ pc[i] = "findUnique"
  /\ \E e \in FindUniqueErrors :
       /\ Finish(i, ThroughOuterCatch(Throw(e)))
       /\ Record(i, << Settled("findUnique", Rejected(e)) >>)
  /\ UNCHANGED << dbEvents, dbBookings, remoteEvents, clock, bookingData,
                  event, token, googleEvent >>

\* The event lookup answered: no event ends the invocation, an event leads to
\* await clerk.users.getUserOauthAccessToken (inside getGoogleOAuthToken).
FindUniqueResolves(i) ==
  /\ pc[i] = "findUnique"
  /\ LET answer == FindUnique(inFlight[i].args)
         early == EventNotFound(answer.found)
     IN IF early.kind # "pending"
        THEN /\ Finish(i, ThroughOuterCatch(early))
             /\ Record(i, << Settled("findUnique", Fulfilled(answer)) >>)
             /\ UNCHANGED event
        ELSE LET call == [op |-> "getToken",
                          args |-> [clerkUserId |-> answer.row.user.clerkUserId,
                                    provider |-> "oauth_google"]]
             IN /\ event' = [event EXCEPT ![i] = answer.row]
                /\ inFlight' = [inFlight EXCEPT ![i] = call]
                /\ pc' = [pc EXCEPT ![i] = "getToken"]
                /\ Record(i, << Settled("findUnique", Fulfilled(answer)),
                                Called(call) >>)
                /\ UNCHANGED outcome
  /\ UNCHANGED << dbEvents, dbBookings, remoteEvents, clock, bookingData,
                  token, googleEvent >>

\* Date.now(): the time in milliseconds, which does not run backwards and may
\* not have advanced since it was last read.
DateNow == clock..MaxClock

\* The Clerk call settled.  A failure of getGoogleOAuthToken ends the
\* invocation; a token leads to await calendar.events.insert (inside
\* createGoogleCalendarEvent).
TokenSettles(i, settled) ==
  /\ pc[i] = "getToken"
  /\ LET got == getGoogleOAuthToken(settled)
     IN IF got.kind = "throw"
        THEN /\ Finish(i, ThroughOuterCatch(TokenFailure(got.error)))
             /\ Record(i, << Settled("getToken", settled) >>)
             /\ UNCHANGED << token, clock >>
        ELSE \E now \in DateNow :
               LET call == [op |-> "calInsert",
                            args |-> CalendarInsertRequest(
                                       CalendarParams(got.value, bookingData[i],
                                                      event[i]),
                                       now)]
               IN /\ clock' = now
                  /\ token' = [token EXCEPT ![i] = got.value]
                  /\ inFlight' = [inFlight EXCEPT ![i] = call]
                  /\ pc' = [pc EXCEPT ![i] = "calInsert"]
                  /\ Record(i, << Settled("getToken", settled), Called(call) >>)
                  /\ UNCHANGED outcome
  /\ UNCHANGED << dbEvents, dbBookings, remoteEvents, bookingData, event,
                  googleEvent >>

TokenCallSettles(i) ==
  \/ \E r \in TokenResponses : TokenSettles(i, Fulfilled(r))
  \/ \E e \in TokenErrors : TokenSettles(i, Rejected(e))

\* The calendar insert settled (the settle that fulfils it is the moment the
\* remote event exists).  A failure ends the invocation, by a result or through
\* the outermost catch; success leads to await db.booking.create.
CalendarSettles(i, settled) ==
  /\ pc[i] = "calInsert"
  /\ LET made == createGoogleCalendarEvent(settled)
     IN IF made.kind = "throw"
        THEN /\ Finish(i, ThroughOuterCatch(CalendarFailure(made.error)))
             /\ Record(i, << Settled("calInsert", settled) >>)
             /\ UNCHANGED googleEvent
        ELSE LET call == [op |-> "dbCreate",
                          args |-> BookingCreateData(event[i], bookingData[i],
                                                     made.value)]
             IN /\ googleEvent' = [googleEvent EXCEPT ![i] = made.value]
                /\ inFlight' = [inFlight EXCEPT ![i] = call]
                /\ pc' = [pc EXCEPT ![i] = "dbCreate"]
                /\ Record(i, << Settled("calInsert", settled), Called(call) >>)
                /\ UNCHANGED outcome
  /\ UNCHANGED << dbEvents, dbBookings, clock, bookingData, event, token >>

\* The calendar service creates the event and answers with its id and its
\* conference link, both fresh.
CalendarInsertResolves(i) ==
  /\ pc[i] = "calInsert"
  /\ LET n == ToString(Len(remoteEvents) + 1)
         data == [id |-> Str("G" \o n), hangoutLink |-> Str("meet/" \o n)]
     IN /\ remoteEvents' = Append(remoteEvents,
                              [id |-> data.id, hangoutLink |-> data.hangoutLink,
                               summary |-> inFlight[i].args.summary])
        /\ CalendarSettles(i, Fulfilled([data |-> data]))

CalendarInsertRejects(i) ==
  /\ pc[i] = "calInsert"
  /\ \E e \in CalendarErrors :
       /\ CalendarSettles(i, Rejected(e))
       /\ UNCHANGED remoteEvents

\* A write that replaces the Booking already there (an upsert) instead of
\* inserting a row.
BookingCreateResolves_upsert(i) ==
  /\ pc[i] = "dbCreate"
  /\ LET booking == [id |-> 1] @@ inFlight[i].args
     IN /\ dbBookings' = IF dbBookings = << >>
                         THEN << booking >>
                         ELSE [dbBookings EXCEPT ![1] = booking]
        /\ Finish(i, ThroughOuterCatch(SuccessResult(booking, googleEvent[i])))
        /\ Record(i, << Settled("dbCreate", Fulfilled(booking)) >>)
  /\ UNCHANGED << dbEvents, remoteEvents, clock, bookingData, event, token,
                  googleEvent >>

\* db.booking.create inserted the row and answers with it.
BookingCreateResolves(i) ==
  /\ pc[i] = "dbCreate"
  /\ LET booking == [id |-> Len(dbBookings) + 1] @@ inFlight[i].args
     IN /\ dbBookings' = Append(dbBookings, booking)
        /\ Finish(i, ThroughOuterCatch(SuccessResult(booking, googleEvent[i])))
        /\ Record(i, << Settled("dbCreate", Fulfilled(booking)) >>)
  /\ UNCHANGED << dbEvents, remoteEvents, clock, bookingData, event, token,
                  googleEvent >>

\* db.booking.create failed: the outermost catch answers.
BookingCreateRejects(i) ==
  /\ pc[i] = "dbCreate"
  /\ \E e \in BookingCreateErrors :
       /\ Finish(i, ThroughOuterCatch(Throw(e)))
       /\ Record(i, << Settled("dbCreate", Rejected(e)) >>)
  /\ UNCHANGED << dbEvents, dbBookings, remoteEvents, clock, bookingData,
                  event, token, googleEvent >>

Next ==
  \/ \E i \in Invocations, bd \in BookingDatas : Invoke(i, bd)
  \/ \E i \in Invocations : FindUniqueResolves(i)
  \/ \E i \in Invocations : FindUniqueRejects(i)
  \/ \E i \in Invocations : TokenCallSettles(i)
  \/ \E i \in Invocations : CalendarInsertResolves(i)
  \/ \E i \in Invocations : CalendarInsertRejects(i)
  \/ \E i \in Invocations : BookingCreateResolves(i)
  \/ \E i \in Invocations : BookingCreateRejects(i)

Spec == Init /\ [][Next]_vars

\* Each collaborator call in flight eventually returns or fails.
CallSettles(i) ==
  \/ FindUniqueResolves(i)
  \/ FindUniqueRejects(i)
  \/ TokenCallSettles(i)
  \/ CalendarInsertResolves(i)
  \/ CalendarInsertRejects(i)
  \/ BookingCreateResolves(i)
  \/ BookingCreateRejects(i)

FairSpec == Spec /\ \A i \in Invocations : WF_vars(CallSettles(i))

\* ------------------------------------------------- reading the history
\* The collaborator calls invocation i has made, in order.
CallsMade(i) ==
  LET made == SelectSeq(hist[i], LAMBDA h : h.ev = "call")
  IN [k \in 1..Len(made) |-> made[k].op]

\* Invocation i has had its call op settled the given way.
HasSettled(i, op, how) ==
  \E k \in 1..Len(hist[i]) : hist[i][k].op = op /\ hist[i][k].ev = how

\* The settled promise of invocation i's call op.
SettledOf(i, op) ==
  LET k == CHOOSE k \in 1..Len(hist[i]) :
             hist[i][k].op = op /\ hist[i][k].ev # "call"
  IN hist[i][k].val

Finished(i) == pc[i] = "done"

\* The result object invocation i returned.
Result(i) == outcome[i].value

\* ------------------------------------------------------------------- C1
\* C1: whatever the collaborators answer, provided every call in flight
\* settles, an invocation of createBooking eventually finishes, and it
\* finishes by returning a result object whose success is true or false,
\* never by throwing.
\* (An invocation never goes back to idle, so that again and again every
\* invocation begun has finished says each of them finishes.)
C1_AlwaysReturnsResult ==
  /\ [](\A i \in Invocations :
          Finished(i) => /\ outcome[i].kind = "return"
                         /\ Result(i).success \in BOOLEAN)
  /\ []<>(\A i \in Invocations : pc[i] # "idle" => Finished(i))

\* An invocation whose booking insert threw has finished with a result.
C1_Witness ==
  \E i \in Invocations :
    /\ Finished(i)
    /\ HasSettled(i, "dbCreate", "rejected")
    /\ outcome[i].kind = "return"

\* ------------------------------------------------------------ C2 .. C10
Range(seq) == { seq[k] : k \in 1..Len(seq) }

HasField(r, f) == f \in DOMAIN r

\* The Bookings invocation i had inserted, and the remote calendar events it
\* had created: the rows its calls were answered with.
BookingsOf(i) ==
  { b \in Range(dbBookings) :
      /\ HasSettled(i, "dbCreate", "fulfilled")
      /\ SettledOf(i, "dbCreate").value = b }

RemoteEventsOf(i) ==
  { g \in Range(remoteEvents) :
      /\ HasSettled(i, "calInsert", "fulfilled")
      /\ SettledOf(i, "calInsert").value.data.id = g.id }

\* The event lookup of invocation i answered that there is no such event.
LookupFoundNothing(i) ==
  /\ HasSettled(i, "findUnique", "fulfilled")
  /\ ~SettledOf(i, "findUnique").value.found

\* C2: when the event lookup returns no event, createBooking returns
\* {success:false, error:"Event not found"} and the invocation makes no token
\* call, no calendar call and no booking insert.
C2_EventNotFound ==
  \A i \in Invocations :
    LookupFoundNothing(i) =>
      /\ Finished(i)
      /\ outcome[i] = Return([success |-> FALSE, error |-> "Event not found"])
      /\ CallsMade(i) = << "findUnique" >>
      /\ BookingsOf(i) = {} /\ RemoteEventsOf(i) = {}

C2_Witness ==
  \E i \in Invocations :
    /\ Finished(i)
    /\ LookupFoundNothing(i)
    /\ bookingData[i].eventId = "E9"

\* The Clerk call of invocation i answered without error and with no token.
AnsweredWithoutToken(i) ==
  /\ HasSettled(i, "getToken", "fulfilled")
  /\ LET data == SettledOf(i, "getToken").value.data
     IN Len(data) = 0 \/ ~Truthy(data[1].token)

\* The Clerk call of invocation i failed, with the token-retrieval error or
\* with another error.
TokenCallFailed(i, retrieval) ==
  /\ HasSettled(i, "getToken", "rejected")
  /\ retrieval = StrictEquals(SettledOf(i, "getToken").reason.code,
                              Str("oauth_token_retrieval_error"))

\* The result of invocation i is a failure with this code and this
\* requiresReauth.
FailedWith(i, code, reauth) ==
  /\ outcome[i].kind = "return"
  /\ Result(i).success = FALSE
  /\ HasField(Result(i), "code") /\ Result(i).code = Str(code)
  /\ HasField(Result(i), "requiresReauth") /\ Result(i).requiresReauth = reauth

\* C3: when the owner of the event has no linked Google account (Clerk
\* answers without error but with no token), createBooking returns a failure
\* with code "NO_GOOGLE_CONNECTION" and requiresReauth false, and makes no
\* calendar call and no booking insert.
C3_NoConnection ==
  \A i \in Invocations :
    Finished(i) /\ AnsweredWithoutToken(i) =>
      /\ FailedWith(i, "NO_GOOGLE_CONNECTION", FALSE)
      /\ CallsMade(i) = << "findUnique", "getToken" >>
      /\ BookingsOf(i) = {} /\ RemoteEventsOf(i) = {}

\* C4: when the Clerk call fails with the token-retrieval error, createBooking
\* returns a failure with code "GOOGLE_AUTH_REQUIRED" and requiresReauth true.
C4_AuthRequired ==
  \A i \in Invocations :
    Finished(i) /\ TokenCallFailed(i, TRUE) =>
      FailedWith(i, "GOOGLE_AUTH_REQUIRED", TRUE)

C4_Witness ==
  \E i \in Invocations :
    /\ Finished(i)
    /\ TokenCallFailed(i, TRUE)
    /\ Result(i).error = "Please reconnect your Google Calendar"

\* C5: when the Clerk call fails with any other error, createBooking returns a
\* failure with code "GOOGLE_AUTH_ERROR" and requiresReauth false.
C5_AuthError ==
  \A i \in Invocations :
    Finished(i) /\ TokenCallFailed(i, FALSE) =>
      FailedWith(i, "GOOGLE_AUTH_ERROR", FALSE)

C5_Witness ==
  \E i, j \in Invocations :
    /\ Finished(i) /\ TokenCallFailed(i, FALSE)
    /\ Finished(j) /\ TokenCallFailed(j, FALSE)
    /\ SettledOf(i, "getToken").reason.code = Undefined
    /\ SettledOf(j, "getToken").reason.code = Str("resource_not_found")

\* The calendar insert of invocation i failed with code 401.
CalendarUnauthorized(i) ==
  /\ HasSettled(i, "calInsert", "rejected")
  /\ StrictEquals(SettledOf(i, "calInsert").reason.code, Num(401))

\* C6: when the token was obtained and the calendar insert fails with code
\* 401, createBooking returns a failure with code "GOOGLE_TOKEN_EXPIRED" and
\* requiresReauth true, and the invocation makes no booking insert.
C6_TokenExpired ==
  \A i \in Invocations :
    Finished(i) /\ CalendarUnauthorized(i) =>
      /\ FailedWith(i, "GOOGLE_TOKEN_EXPIRED", TRUE)
      /\ CallsMade(i) = << "findUnique", "getToken", "calInsert" >>
      /\ BookingsOf(i) = {}

C6_Witness ==
  \E i \in Invocations :
    /\ Finished(i)
    /\ CalendarUnauthorized(i)
    /\ Truthy(token[i])
    /\ HasSettled(i, "getToken", "fulfilled")

\* C7 as stated: after a calendar insert that failed with code 401 the result
\* is exactly {success:false, error:"Google Calendar access expired",
\* code:"GOOGLE_TOKEN_EXPIRED", requiresReauth:true}.
C7_ErrorIsInnerMessage ==
  \A i \in Invocations :
    Finished(i) /\ CalendarUnauthorized(i) =>
      outcome[i] = Return([success |-> FALSE,
                           error |-> "Google Calendar access expired",
                           code |-> Str("GOOGLE_TOKEN_EXPIRED"),
                           requiresReauth |-> TRUE])

\* C7, amended: after a calendar insert that failed with code 401 the result
\* is exactly {success:false, error:"Failed to create calendar event. Please
\* reconnect Google Calendar.", code:"GOOGLE_TOKEN_EXPIRED",
\* requiresReauth:true}; the message "Google Calendar access expired" of the
\* error thrown by createGoogleCalendarEvent is not passed on.
C7_ErrorIsReconnectMessage ==
  \A i \in Invocations :
    Finished(i) /\ CalendarUnauthorized(i) =>
      outcome[i] = Return([success |-> FALSE,
                           error |-> "Failed to create calendar event. Please reconnect Google Calendar.",
                           code |-> Str("GOOGLE_TOKEN_EXPIRED"),
                           requiresReauth |-> TRUE])

C7_Witness ==
  \E i \in Invocations :
    /\ Finished(i)
    /\ CalendarUnauthorized(i)
    /\ DOMAIN Result(i) = {"success", "error", "code", "requiresReauth"}

\* In the history of invocation i the first entry comes before the second.
Precedes(i, op1, ev1, op2, ev2) ==
  \E a, b \in 1..Len(hist[i]) :
    /\ a < b
    /\ hist[i][a].op = op1 /\ hist[i][a].ev = ev1
    /\ hist[i][b].op = op2 /\ hist[i][b].ev = ev2

\* C8: every persisted Booking was inserted by an invocation that had before,
\* in that same invocation, received a successful answer of the calendar
\* insert, and the remote calendar event of that answer exists.
C8_BookingOnlyAfterCalendarEvent ==
  \A b \in Range(dbBookings) :
    \E i \in Invocations :
      /\ b \in BookingsOf(i)
      /\ Precedes(i, "calInsert", "fulfilled", "dbCreate", "call")
      /\ RemoteEventsOf(i) # {}

C8_Witness ==
  \E i \in Invocations :
    /\ BookingsOf(i) # {}
    /\ Len(dbBookings) = NumInvocations

\* C9: a finished invocation has created the remote calendar event and the
\* Booking together, or neither of them.
C9_TogetherOrNeither ==
  \A i \in Invocations :
    Finished(i) => (RemoteEventsOf(i) # {} <=> BookingsOf(i) # {})

\* C10: on full success the persisted Booking carries as meetLink and
\* googleEventId the hangout link and the id the calendar insert of that
\* invocation answered with, and the result is {success:true, booking,
\* meetLink} with that Booking and that link.
C10_SuccessCarriesCalendarValues ==
  \A i \in Invocations :
    Finished(i) /\ HasSettled(i, "dbCreate", "fulfilled") =>
      LET data == SettledOf(i, "calInsert").value.data
      IN /\ HasSettled(i, "findUnique", "fulfilled")
         /\ HasSettled(i, "getToken", "fulfilled")
         /\ HasSettled(i, "calInsert", "fulfilled")
         /\ outcome[i].kind = "return"
         /\ DOMAIN Result(i) = {"success", "booking", "meetLink"}
         /\ Result(i).success = TRUE
         /\ Result(i).booking \in Range(dbBookings)
         /\ Result(i).booking.meetLink = data.hangoutLink
         /\ Result(i).booking.googleEventId = data.id
         /\ Result(i).meetLink = data.hangoutLink

C10_Witness ==
  \E i \in Invocations :
    /\ Finished(i)
    /\ outcome[i].kind = "return" /\ Result(i).success
    /\ Result(i).booking.googleEventId = Str("G2")
    /\ Result(i).meetLink = Str("meet/2")

\* ----------------------------------------------------------- C11 .. C20
\* The result of the outermost catch for an error with this message.
GenericFailure(message) ==
  Return([success |-> FALSE, error |-> "Failed to create booking",
          details |-> message])

\* The calendar insert of invocation i failed with another code than 401.
CalendarFailedOtherwise(i) ==
  /\ HasSettled(i, "calInsert", "rejected")
  /\ ~StrictEquals(SettledOf(i, "calInsert").reason.code, Num(401))

\* C11: an exception that is not an event-not-found, token or calendar
\* authorization failure reaches the outermost catch and is returned as
\* {success:false, error:"Failed to create booking", details:<its message>},
\* with no code and no requiresReauth: the error of a throwing event lookup,
\* the error of a throwing booking insert, and the Error that
\* createGoogleCalendarEvent throws for a calendar failure other than 401.
C11_UnclassifiedIsGeneric ==
  \A i \in Invocations :
    Finished(i) =>
      /\ HasSettled(i, "findUnique", "rejected") =>
           outcome[i] = GenericFailure(SettledOf(i, "findUnique").reason.message)
      /\ HasSettled(i, "dbCreate", "rejected") =>
           outcome[i] = GenericFailure(SettledOf(i, "dbCreate").reason.message)
      /\ CalendarFailedOtherwise(i) =>
           outcome[i] = GenericFailure("Failed to create Google Calendar event")

C11_Witness ==
  \E i, j \in Invocations :
    /\ Finished(i) /\ HasSettled(i, "findUnique", "rejected")
    /\ Finished(j) /\ HasSettled(j, "dbCreate", "rejected")
    /\ Result(i).details = "db unreachable"
    /\ Result(j).details = "constraint failed"

\* Invocation i returned success:true.
Succeeded(i) ==
  Finished(i) /\ outcome[i].kind = "return" /\ Result(i).success = TRUE

AllFourCalls == << "findUnique", "getToken", "calInsert", "dbCreate" >>

\* C12: createBooking is not idempotent.  Two invocations with identical
\* input that both succeed have each made their own calendar insert and their
\* own booking insert, and have left two distinct Bookings and two distinct
\* remote calendar events.
C12_NotIdempotent ==
  \A i, j \in Invocations :
    i # j /\ Succeeded(i) /\ Succeeded(j) /\ bookingData[i] = bookingData[j] =>
      /\ CallsMade(i) = AllFourCalls
      /\ CallsMade(j) = AllFourCalls
      /\ HasField(Result(i), "booking") /\ HasField(Result(j), "booking")
      /\ Result(i).booking # Result(j).booking
      /\ Result(i).booking \in Range(dbBookings)
      /\ Result(j).booking \in Range(dbBookings)
      /\ Len(dbBookings) >= 2
      /\ RemoteEventsOf(i) # {} /\ RemoteEventsOf(j) # {}
      /\ RemoteEventsOf(i) \cap RemoteEventsOf(j) = {}
      /\ Len(remoteEvents) >= 2

C12_Witness ==
  \E i, j \in Invocations :
    /\ i # j /\ Succeeded(i) /\ Succeeded(j)
    /\ bookingData[i] = bookingData[j]
    /\ Result(i).booking.id # Result(j).booking.id
    /\ Result(i).booking.googleEventId # Result(j).booking.googleEventId

\* The arguments of the call op that invocation i made.
ArgsOf(i, op) ==
  LET k == CHOOSE k \in 1..Len(hist[i]) :
             hist[i][k].op = op /\ hist[i][k].ev = "call"
  IN hist[i][k].val

HasCalled(i, op) ==
  \E k \in 1..Len(hist[i]) : hist[i][k].op = op /\ hist[i][k].ev = "call"

\* What the collaborators answered to invocation i, in order.
AnswersTo(i) == SelectSeq(hist[i], LAMBDA h : h.ev # "call")

\* C13: under every interleaving of invocations, what an invocation passes on
\* and returns comes from its own request and from the answers to its own
\* calls.  The token of its calendar insert is the token Clerk returned to it,
\* the summary and the attendees are those of its request and its event, the
\* meetLink and googleEventId of the Booking it inserts are those its own
\* calendar insert answered with, the other fields are those of its request,
\* and two invocations with the same request and the same answers have the
\* same result.
C13_OwnRequestAndAnswersOnly ==
  \A i \in Invocations :
    /\ HasCalled(i, "calInsert") =>
         LET sent == ArgsOf(i, "calInsert")
             found == SettledOf(i, "findUnique").value.row
             given == SettledOf(i, "getToken").value.data
         IN /\ HasSettled(i, "getToken", "fulfilled")
            /\ Len(given) > 0
            /\ sent.access_token = given[1].token
            /\ sent.summary = bookingData[i].name \o " - " \o found.title
            /\ sent.attendees = << [email |-> bookingData[i].email],
                                   [email |-> found.user.email] >>
    /\ HasCalled(i, "dbCreate") =>
         LET sent == ArgsOf(i, "dbCreate")
             made == SettledOf(i, "calInsert").value.data
         IN /\ HasSettled(i, "calInsert", "fulfilled")
            /\ sent.meetLink = made.hangoutLink
            /\ sent.googleEventId = made.id
            /\ sent.name = bookingData[i].name
            /\ sent.email = bookingData[i].email
            /\ sent.startTime = bookingData[i].startTime
            /\ sent.endTime = bookingData[i].endTime
            /\ sent.eventId = bookingData[i].eventId
    /\ Succeeded(i) =>
         /\ HasSettled(i, "dbCreate", "fulfilled")
         /\ Result(i).booking = SettledOf(i, "dbCreate").value
    /\ \A j \in Invocations :
         /\ i < j
         /\ Finished(i) /\ Finished(j)
         /\ bookingData[i] = bookingData[j]
         /\ AnswersTo(i) = AnswersTo(j)
         => outcome[i] = outcome[j]

\* Two invocations in flight together, answered crosswise: the first was
\* given one token and the second the other, the calendar answered the
\* second before the first and the database the first before the second.
C13_Witness ==
  /\ Succeeded(1) /\ Succeeded(2)
  /\ token[1] # token[2]
  /\ Result(1).booking.googleEventId = Str("G2")
  /\ Result(1).booking.id = 1
  /\ Result(2).booking.googleEventId = Str("G1")
  /\ Result(2).booking.id = 2

\* C14: the conference-creation request identifier of a calendar insert is
\* unique: two distinct calendar inserts, of invocations one after the other
\* or in flight together, carry different identifiers.
C14_RequestIdUnique ==
  \A i, j \in Invocations :
    i # j /\ HasCalled(i, "calInsert") /\ HasCalled(j, "calInsert") =>
      ArgsOf(i, "calInsert").requestId # ArgsOf(j, "calInsert").requestId

\* The calls of invocation i and what settled them alternate, the calls are
\* the first of findUnique, getToken, calInsert, dbCreate in this order, and
\* each call after the first follows the success of the call before it.
InOrder(i) ==
  LET made == CallsMade(i)
      h == hist[i]
  IN /\ Len(made) <= Len(AllFourCalls)
     /\ made = SubSeq(AllFourCalls, 1, Len(made))
     /\ \A k \in 1..Len(h) :
          /\ (h[k].ev = "call") <=> (k % 2 = 1)
          /\ h[k].ev # "call" =>
               /\ h[k].op = h[k - 1].op
               /\ k < Len(h) => h[k].ev = "fulfilled"

\* C15: on any token failure (no token, the token-retrieval error, any other
\* error of the provider) createBooking returns at once a failure carrying
\* success:false, error, code and requiresReauth, and the invocation makes no
\* calendar call and no booking insert.
C15_TokenFailureShortCircuits ==
  \A i \in Invocations :
    HasSettled(i, "getToken", "rejected") \/ AnsweredWithoutToken(i) =>
      /\ Finished(i)
      /\ outcome[i].kind = "return"
      /\ DOMAIN Result(i) = {"success", "error", "code", "requiresReauth"}
      /\ Result(i).success = FALSE
      /\ Result(i).requiresReauth \in BOOLEAN
      /\ CallsMade(i) = << "findUnique", "getToken" >>
      /\ BookingsOf(i) = {} /\ RemoteEventsOf(i) = {}

C15_Witness ==
  \E i, j \in Invocations :
    /\ Finished(i) /\ HasSettled(i, "getToken", "rejected")
    /\ Finished(j) /\ AnsweredWithoutToken(j)
    /\ SettledOf(j, "getToken").value.data = << [token |-> Str("")] >>

\* C16: a calendar insert that fails with another code than 401 is not turned
\* into a result in the calendar stage: the Error goes on to the outermost
\* catch, the result is the generic failure with details, without code and
\* without requiresReauth, and the invocation makes no booking insert.
C16_CalendarFailureIsGeneric ==
  \A i \in Invocations :
    CalendarFailedOtherwise(i) =>
      /\ Finished(i)
      /\ outcome[i].kind = "return"
      /\ DOMAIN Result(i) = {"success", "error", "details"}
      /\ Result(i).success = FALSE
      /\ Result(i).error = "Failed to create booking"
      /\ CallsMade(i) = << "findUnique", "getToken", "calInsert" >>
      /\ BookingsOf(i) = {}

C16_Witness ==
  \E i, j \in Invocations :
    /\ Finished(i) /\ CalendarFailedOtherwise(i)
    /\ Finished(j) /\ CalendarFailedOtherwise(j)
    /\ SettledOf(i, "calInsert").reason.code = Num(403)
    /\ SettledOf(j, "calInsert").reason.code = Str("ECONNRESET")

\* C17: within one invocation the collaborator calls are made in the order
\* event lookup, token call, calendar insert, booking insert, each at most
\* once, and a call is made only after every call before it succeeded: an
\* event was found before the token call, a token was returned before the
\* calendar insert, the calendar insert was answered before the booking
\* insert.
C17_CallsInOrderOnce ==
  \A i \in Invocations :
    /\ InOrder(i)
    /\ HasCalled(i, "getToken") => SettledOf(i, "findUnique").value.found
    /\ HasCalled(i, "calInsert") => ~AnsweredWithoutToken(i)
    /\ HasCalled(i, "dbCreate") => RemoteEventsOf(i) # {}

C17_Witness ==
  \E i, j \in Invocations :
    /\ Finished(i) /\ CallsMade(i) = AllFourCalls
    /\ Finished(j) /\ CallsMade(j) = << "findUnique", "getToken", "calInsert" >>

\* The invocations that returned success:true.
Successful == { i \in Invocations : Succeeded(i) }

\* C18: a Booking is created exactly once per successful run.  A finished
\* invocation returned success:true exactly if it made one booking insert
\* that succeeded, an invocation that returned success:false added no
\* Booking, and the Bookings added are as many as the invocations that
\* returned success:true.
C18_OneBookingPerSuccess ==
  /\ \A i \in Invocations :
       Finished(i) =>
         /\ outcome[i].kind = "return"
         /\ Result(i).success = TRUE <=>
              /\ HasSettled(i, "dbCreate", "fulfilled")
              /\ Cardinality(BookingsOf(i)) = 1
         /\ Result(i).success = FALSE => BookingsOf(i) = {}
  /\ Len(dbBookings) = Cardinality(Successful)
  /\ Cardinality(Range(dbBookings)) = Len(dbBookings)

C18_Witness ==
  \E i, j \in Invocations :
    /\ Succeeded(i)
    /\ Finished(j) /\ ~Succeeded(j)
    /\ HasSettled(j, "dbCreate", "rejected")
    /\ Len(dbBookings) = 1

\* C19: createBooking only reads the scheduling events and only appends
\* Bookings: no step changes the Event table, and every Booking that exists
\* before a step exists after it, in its place and with the same fields.
C19_ReadsEventsAppendsBookings ==
  [][ /\ dbEvents' = dbEvents
      /\ Len(dbBookings') >= Len(dbBookings)
      /\ SubSeq(dbBookings', 1, Len(dbBookings)) = dbBookings ]_vars

C19_Witness ==
  /\ \A i \in Invocations : Finished(i)
  /\ dbEvents = EventRows
  /\ Len(dbBookings) >= 2
  /\ dbBookings[1].id = 1 /\ dbBookings[2].id = 2

\* The result r asks for reauthorization; the code of r is one of the two
\* that stand for a credential to renew.
AsksReauth(r) == HasField(r, "requiresReauth") /\ r.requiresReauth = TRUE

HasReauthCode(r) ==
  /\ HasField(r, "code")
  /\ \/ StrictEquals(r.code, Str("GOOGLE_AUTH_REQUIRED"))
     \/ StrictEquals(r.code, Str("GOOGLE_TOKEN_EXPIRED"))

\* C20: on every path a returned result has requiresReauth true exactly if
\* its code is "GOOGLE_AUTH_REQUIRED" or "GOOGLE_TOKEN_EXPIRED"; a result
\* with another code, with no code, or with success:true never has it.
C20_ReauthIffReauthCode ==
  \A i \in Invocations :
    Finished(i) /\ outcome[i].kind = "return" =>
      /\ AsksReauth(Result(i)) <=> HasReauthCode(Result(i))
      /\ Result(i).success = TRUE => ~AsksReauth(Result(i))

C20_Witness ==
  \E i, j \in Invocations :
    /\ Finished(i) /\ Finished(j)
    /\ HasField(Result(i), "code") /\ HasField(Result(j), "code")
    /\ Result(i).code = Str("GOOGLE_AUTH_REQUIRED") /\ AsksReauth(Result(i))
    /\ Result(j).code = Str("GOOGLE_TOKEN_EXPIRED") /\ AsksReauth(Result(j))

====
